---- MODULE Spec2Model ----
(***************************************************************************)
(* Model of stokespy/instload.py: parse_folder (the filename filter) and   *)
(* get_HMI_data (closest-timestamp resolution, Level-1 / Level-2 cube      *)
(* assembly and the axis-extended WCS headers).                            *)
(*                                                                         *)
(* A file name is a sequence of atoms.  An atom is a maximal run of digits *)
(* ("720", "000001"), one of the delimiters ".", "_", "/", or a run of     *)
(* letters ("hmi", "TAI").  This is the chunking natsort itself applies,   *)
(* refined at the delimiters, so that str.split, str.lower, string         *)
(* equality and the natural sort can all be computed on it.                *)
(***************************************************************************)
EXTENDS Integers, Sequences, FiniteSets, TLC

VARIABLES
    pc,                 \* position in the running call
    user_dir,           \* dir_path / user_dir argument (a path, as atoms)
    listing,            \* os.listdir(user_dir): base names, arbitrary order
    remote,             \* what the JSOC archive holds (base names)
    user_date,          \* target instant (gps seconds)
    download,           \* download flag
    derotate,           \* derotate flag
    pf,                 \* parse_folder call under test: arguments and result
    all_fnames_stokes,  \* get_HMI_data local of the same name
    all_fnames_magvec,  \* get_HMI_data local of the same name
    tstamps_diff,       \* get_HMI_data local; Unbound until first assigned
    level1_data,        \* get_HMI_data local of the same name
    level1_wcs,         \* get_HMI_data local of the same name
    level2_data,        \* get_HMI_data local of the same name
    level2_wcs,         \* get_HMI_data local of the same name
    tmp_map,            \* the last sunpy map created
    outcome,            \* how the call ended, and what was decoded / fetched
    sp                  \* get_SP_data: its arguments and its other locals

vars == << pc, user_dir, listing, remote, user_date, download, derotate, pf,
           all_fnames_stokes, all_fnames_magvec, tstamps_diff, level1_data,
           level1_wcs, level2_data, level2_wcs, tmp_map, outcome, sp >>

-----------------------------------------------------------------------------
(* Strings as atom sequences                                               *)

\* The letter and delimiter atoms that occur in file names, in ASCII order
\* ("." < "/" < upper case < "_" < lower case).  No atom is a prefix of
\* another, so comparing atoms compares the strings.
Alphabet ==
    << ".", "/", "HMI", "I", "ME", "Q", "S", "TAI", "U", "V", "_",
       "aia", "azimuth", "data", "euv", "fd", "field", "fits", "hmi",
       "inclination", "lev", "s", "v", "x" >>

\* The digit runs "0" .. "26", at positions 1 .. 27.
SmallNum ==
    << "0", "1", "2", "3", "4", "5", "6", "7", "8", "9", "10", "11", "12",
       "13", "14", "15", "16", "17", "18", "19", "20", "21", "22", "23",
       "24", "25", "26" >>

\* str(n) for a small n.
Str(n) == SmallNum[n + 1]

\* int() of the longer digit runs.
LongNum ==
    [ a \in { "45", "720", "000000", "000001", "235959", "20140910", "20140911" } |->
        CASE a = "45" -> 45 [] a = "720" -> 720
          [] a = "000000" -> 0 [] a = "000001" -> 1 [] a = "235959" -> 235959
          [] a = "20140910" -> 20140910 [] a = "20140911" -> 20140911 ]

\* int() of every digit run of the model.
NumVal ==
    [ a \in DOMAIN LongNum \cup { SmallNum[i] : i \in DOMAIN SmallNum } |->
        IF a \in DOMAIN LongNum THEN LongNum[a]
        ELSE (CHOOSE i \in DOMAIN SmallNum : SmallNum[i] = a) - 1 ]

IsNum(a) == a \in DOMAIN NumVal

\* The place of a letter atom in the ASCII order.
Rank == [ a \in { Alphabet[i] : i \in DOMAIN Alphabet } |->
            CHOOSE i \in DOMAIN Alphabet : Alphabet[i] = a ]

\* str.lower() of one atom.
LowerAtom(a) ==
    CASE a = "HMI" -> "hmi" [] a = "I" -> "i" [] a = "ME" -> "me"
      [] a = "Q" -> "q" [] a = "S" -> "s" [] a = "TAI" -> "tai"
      [] a = "U" -> "u" [] a = "V" -> "v" [] OTHER -> a

\* A sequence given as a function on 1 .. n, written out as a tuple.
Tuple(f) == f \o << >>

\* str.lower()
Lower(s) == Tuple([ i \in DOMAIN s |-> LowerAtom(s[i]) ])

RECURSIVE SplitFrom(_, _, _, _)
SplitFrom(s, d, i, cur) ==
    IF i > Len(s) THEN << cur >>
    ELSE IF s[i] = d THEN << cur >> \o SplitFrom(s, d, i + 1, << >>)
    ELSE SplitFrom(s, d, i + 1, Append(cur, s[i]))

\* str.split(d): the tokens between the delimiters, empty tokens included.
Split(s, d) == SplitFrom(s, d, 1, << >>)

RECURSIVE Join(_, _)
\* d.join(tokens)
Join(tokens, d) ==
    IF tokens = << >> THEN << >>
    ELSE IF Len(tokens) = 1 THEN tokens[1]
    ELSE tokens[1] \o << d >> \o Join(Tail(tokens), d)

-----------------------------------------------------------------------------
(* natsort.natsorted                                                       *)

\* Above the value of every digit run.
TextBase == 1000 * 1000 * 1000

\* One chunk of natsort's key: a digit run counts by its value and precedes
\* text at the same place (the text chunk before it is then a proper prefix
\* of the other name's chunk); text compares as text.
AtomKey(a) == IF IsNum(a) THEN NumVal[a] ELSE TextBase + Rank[a]

\* natsort's key of a name.
NatKey(name) == Tuple([ i \in DOMAIN name |-> AtomKey(name[i]) ])

RECURSIVE KeyLessFrom(_, _, _)
KeyLessFrom(a, b, i) ==
    IF i > Len(a) THEN i <= Len(b)
    ELSE IF i > Len(b) THEN FALSE
    ELSE IF a[i] = b[i] THEN KeyLessFrom(a, b, i + 1)
    ELSE a[i] < b[i]

\* Tuple comparison of two keys.
KeyLess(a, b) == KeyLessFrom(a, b, 1)

\* key(a) < key(b) for two names.
NatLess(a, b) == KeyLess(NatKey(a), NatKey(b))

RECURSIVE LowerBound(_, _, _, _)
\* The first place in lo .. hi - 1 of the sorted run r whose key is not below
\* key (hi when there is none).
LowerBound(r, key, lo, hi) ==
    IF lo >= hi THEN lo
    ELSE LET mid == (lo + hi) \div 2
         IN  IF KeyLess(r[mid].key, key) THEN LowerBound(r, key, mid + 1, hi)
             ELSE LowerBound(r, key, lo, mid)

RECURSIVE Merge(_, _)
\* Stable merge of two sorted runs of (key, name) pairs: an element of the
\* left run precedes the elements of the right run with the same key.
Merge(l, r) ==
    IF Len(l) = 0 THEN r
    ELSE IF Len(r) = 0 THEN l
    ELSE LET h == (Len(l) + 1) \div 2
             p == LowerBound(r, l[h].key, 1, Len(r) + 1) - 1
         IN  Merge(SubSeq(l, 1, h - 1), SubSeq(r, 1, p))
             \o << l[h] >>
             \o Merge(SubSeq(l, h + 1, Len(l)), SubSeq(r, p + 1, Len(r)))

RECURSIVE MergeSort(_)
MergeSort(s) ==
    IF Len(s) <= 1 THEN s
    ELSE LET h == Len(s) \div 2
         IN  Merge(MergeSort(SubSeq(s, 1, h)), MergeSort(SubSeq(s, h + 1, Len(s))))

\* sorted(s, key=natsort_key): a stable sort on the keys, computed once each.
SortByKey(s) ==
    LET keyed  == Tuple([ i \in DOMAIN s |-> [ key |-> NatKey(s[i]), name |-> s[i] ] ])
        sorted == MergeSort(keyed)
    IN  Tuple([ i \in DOMAIN sorted |-> sorted[i].name ])

\* The mutant of natsorted: the listing is used in os.listdir order.
natsortedOmitted(s) == s

\* natsort.natsorted(s): a stable sort by the natural key.
natsorted(s) == SortByKey(s)

-----------------------------------------------------------------------------
(* parse_folder                                                            *)

Ok(v) == [ ok |-> TRUE, val |-> v, err |-> "" ]
Raise(e) == [ ok |-> FALSE, val |-> << >>, err |-> e ]

\* The delimiter of a repository's file names.
Delim(repo) == IF repo = "JSOC" THEN "." ELSE "_"

\* sfile_ of lines 34-37.
Tokens(file_, repo) == Split(Lower(file_), Delim(repo))

\* The test of line 39 on the tokens of one name.  sfile_[1] of the code is
\* sfile_[2] here; it is read only when the instrument token matches.
Keeps(sfile_, inst, series) ==
    sfile_[1] = Lower(inst) /\ sfile_[2] = Lower(series)

\* sfile_[1] is read and does not exist: IndexError.
TokenMissing(sfile_, inst) ==
    sfile_[1] = Lower(inst) /\ Len(sfile_) < 2

\* Lines 31-40 over the sorted names: the loop raises at the first name
\* whose missing token it reads, and otherwise keeps dir_path + file_ for
\* each name that passes, in order.
FilterLoop(all_fnames, dir_path, inst, series, repo) ==
    LET both == Tuple([ i \in DOMAIN all_fnames |->
                          [ file_ |-> all_fnames[i], sfile_ |-> Tokens(all_fnames[i], repo) ] ])
    IN  IF \E i \in DOMAIN both : TokenMissing(both[i].sfile_, inst)
        THEN Raise("IndexError")
        ELSE LET kept == SelectSeq(both, LAMBDA x : Keeps(x.sfile_, inst, series))
             IN  Ok(Tuple([ i \in DOMAIN kept |-> dir_path \o kept[i].file_ ]))

\* parse_folder(dir_path, inst, series, repo) on a directory whose
\* os.listdir is `names`.
parse_folder(dir_path, names, inst, series, repo) ==
    FilterLoop(natsorted(names), dir_path, inst, series, repo)

-----------------------------------------------------------------------------
(* File names                                                              *)

\* hmi.S_720s.<date>_<time>_TAI.<L><w>.fits
StokesName(d, t, L, w) ==
    << "hmi", ".", "S", "_", "720", "s", ".", d, "_", t, "_", "TAI", ".",
       L, w, ".", "fits" >>

\* hmi.ME_720s_fd10.<date>_<time>_TAI.<segment>.fits
MagName(d, t, seg) ==
    << "hmi", ".", "ME", "_", "720", "s", "_", "fd", "10", ".",
       d, "_", t, "_", "TAI", "." >> \o seg \o << ".", "fits" >>

\* Neither series: an AIA file of the same directory.
OtherName == << "aia", ".", "lev", "1", "_", "euv", "_", "12", "s", ".", "fits" >>

NoPf == [ inst |-> << >>, series |-> << >>, repo |-> "", out |-> Raise("") ]

\* No get_SP_data call is under way.
NoSp ==
    [ user_date |-> "", magnetic_params |-> << >>, level1_files |-> << >>,
      shape |-> << >>, raw |-> << >>, head_all |-> << >>, xcen_a |-> << >>,
      ycen_a |-> << >>, level2_fname |-> << >> ]

Unbound == [ bound |-> FALSE, val |-> << >> ]
Bound(v) == [ bound |-> TRUE, val |-> v ]

\* The locals of get_HMI_data before the call has assigned them.
NoLocals ==
    /\ all_fnames_stokes = Unbound
    /\ all_fnames_magvec = Unbound
    /\ tstamps_diff = Unbound
    /\ level1_data = Unbound
    /\ level1_wcs = Unbound
    /\ level2_data = Unbound
    /\ level2_wcs = Unbound
    /\ tmp_map = Unbound
    /\ outcome = [ kind |-> "running", err |-> "", at |-> "", decoded |-> << >>,
                   fetched |-> 0 ]

-----------------------------------------------------------------------------
(* parse_folder on its own: every short listing, in every order            *)

MaxListing == 3

FilterPool ==
    { StokesName("20140910", "235959", "I", "2"),
      StokesName("20140910", "235959", "I", "10"),
      << "HMI", ".", "s", "_", "720", "s", ".", "20140911", "_", "000000",
         "_", "TAI", ".", "Q", "0", ".", "fits" >>,
      MagName("20140910", "235959", << "field" >>),
      << "hmi", "_", "v", "_", "45", "s", ".", "fits" >>,
      << "HMI", "_", "V", "_", "45", "s", "_", "2", ".", "fits" >>,
      OtherName,
      << "hmi" >> }

\* The sequences over S of length n that repeat no element.
RECURSIVE Arrangements(_, _)
Arrangements(S, n) ==
    IF n = 0 THEN { << >> }
    ELSE UNION { { << x >> \o r : r \in Arrangements(S \ { x }, n - 1) } : x \in S }

Listings == UNION { Arrangements(FilterPool, n) : n \in 0 .. MaxListing }

InitFilter ==
    /\ pc = "pf_call"
    /\ user_dir = << "/", "data", "/" >>
    /\ listing \in Listings
    /\ remote = << >>
    /\ user_date = 0
    /\ download = FALSE
    /\ derotate = FALSE
    /\ \E inst \in { << "hmi" >>, << "HMI" >> },
          series \in { << "S", "_", "720", "s" >>, << "v" >> },
          repo \in { "JSOC", "VSO" } :
         pf = [ inst |-> inst, series |-> series, repo |-> repo, out |-> Raise("") ]
    /\ sp = NoSp
    /\ NoLocals

\* One call parse_folder(dir_path=user_dir, inst, series, repo).
ParseFolderCall ==
    /\ pc = "pf_call"
    /\ pc' = "pf_done"
    /\ pf' = [ pf EXCEPT !.out = parse_folder(user_dir, listing, pf.inst, pf.series, pf.repo) ]
    /\ UNCHANGED << sp, user_dir, listing, remote, user_date, download, derotate,
                    all_fnames_stokes, all_fnames_magvec, tstamps_diff,
                    level1_data, level1_wcs, level2_data, level2_wcs, tmp_map,
                    outcome >>

NextFilter == ParseFolderCall

SpecFilter == InitFilter /\ [][NextFilter]_vars

Range(s) == { s[i] : i \in DOMAIN s }

\* The base name of a returned path: the path without the dir_path prefix.
BaseOf(path, dir_path) == SubSeq(path, Len(dir_path) + 1, Len(path))

\* C8, the membership rule as the claim words it: tokens 0 and 1 of the
\* lower-cased name equal the lower-cased instrument and series.
C8_Selected(f) ==
    LET tok == Split(Lower(f), IF pf.repo = "JSOC" THEN "." ELSE "_")
    IN  /\ Len(tok) >= 2
        /\ tok[1] = Lower(pf.inst)
        /\ tok[2] = Lower(pf.series)

-----------------------------------------------------------------------------
(* Timestamps                                                              *)

SecPerDay == 24 * 3600

\* Days since 2014-09-10 of a YYYYMMDD digit run.
DateDay == [ a \in { "20140910", "20140911" } |-> IF a = "20140910" THEN 0 ELSE 1 ]

\* The HHMMSS digit runs.
Clock == { "000000", "000001", "235959" }

\* Seconds into the day of an HHMMSS digit run.
ClockSec(a) ==
    LET v == NumVal[a]
    IN  (v \div 10000) * 3600 + ((v \div 100) % 100) * 60 + (v % 100)

\* sunpy.time.parse_time('_'.join(tok.split('_')[0:2])).gps, in seconds since
\* 2014-09-10 00:00:00; ValueError when the text is no <date>_<time>.
ParseTime(tok) ==
    LET parts == Split(tok, "_")
        text  == Join(SubSeq(parts, 1, IF Len(parts) < 2 THEN Len(parts) ELSE 2), "_")
    IN  IF Len(text) = 3 /\ text[1] \in DOMAIN DateDay /\ text[2] = "_" /\ text[3] \in Clock
        THEN Ok(DateDay[text[1]] * SecPerDay + ClockSec(text[3]))
        ELSE Raise("ValueError")

Abs(x) == IF x < 0 THEN 0 - x ELSE x

\* [np.abs(t.gps - user_date.gps) for each file], from token 2 of each path
\* split on '.'; the list comprehensions raise on the first bad path.
TimestampDiffs(fnames, T) ==
    IF \E i \in DOMAIN fnames : Len(Split(fnames[i], ".")) < 3
    THEN Raise("IndexError")
    ELSE LET tstamps == Tuple([ i \in DOMAIN fnames |-> ParseTime(Split(fnames[i], ".")[3]) ])
         IN  IF \E i \in DOMAIN fnames : ~ tstamps[i].ok
             THEN Raise("ValueError")
             ELSE Ok(Tuple([ i \in DOMAIN fnames |-> Abs(tstamps[i].val - T) ]))

MinOf(diffs) == CHOOSE m \in Range(diffs) : \A d \in Range(diffs) : m <= d

\* np.asarray(fnames)[np.where(diffs == diffs.min())]
ClosestFiles(fnames, diffs) ==
    LET m    == MinOf(diffs)
        both == Tuple([ i \in DOMAIN fnames |-> [ name |-> fnames[i], diff |-> diffs[i] ] ])
        kept == SelectSeq(both, LAMBDA x : x.diff = m)
    IN  Tuple([ i \in DOMAIN kept |-> kept[i].name ])

-----------------------------------------------------------------------------
(* Decoding and the cubes                                                  *)

NStokes == 4
NWav == 6

\* sunpy.map.Map(fname), rotated when derotate is set.
MapOf(fname, rot) == [ file |-> fname, rotated |-> rot ]

RECURSIVE ReshapeRow(_, _, _, _)
ReshapeRow(flat, b, s, w) ==
    IF w > b THEN << >>
    ELSE << flat[(s - 1) * b + w] >> \o ReshapeRow(flat, b, s, w + 1)

\* The mutant of Reshape: the two leading axes swapped, reshape(6, 4)
\* transposed, so that cube[s][w] is file s + 4 * w.
ReshapeColumnMajor(flat, a, b) ==
    [ s \in 1 .. a |-> [ w \in 1 .. b |-> flat[(w - 1) * a + s] ] ]

\* flat.reshape(a, b, Y, X) in C order: cube[s][w] is slice b * s + w (here
\* with indices from 1).
Reshape(flat, a, b) == [ s \in 1 .. a |-> ReshapeRow(flat, b, s, 1) ]

\* reshape raises ValueError unless the stack holds a * b images.
ReshapeAccepts(n, a, b) == n = a * b

\* The Level-1 result of lines 195-203 for the resolved files.
Level1Cube(fnames, rot) ==
    LET stack == Tuple([ i \in DOMAIN fnames |-> MapOf(fnames[i], rot) ])
    IN  IF Len(stack) = 0 THEN Raise("IndexError")
        ELSE IF ~ ReshapeAccepts(Len(stack), NStokes, NWav) THEN Raise("ValueError")
        ELSE Ok(Reshape(stack, NStokes, NWav))

mag_params == << << "field" >>, << "inclination" >>, << "azimuth" >> >>

\* fname.split('.')[-2]
DataId(fname) ==
    LET tok == Split(fname, ".") IN tok[Len(tok) - 1]

\* The files of one parameter, in their order in fnames (lines 246-249).
FilesOfParam(fnames, mag_param) ==
    SelectSeq(fnames, LAMBDA f : DataId(f) = mag_param)

RECURSIVE UseFnamesFrom(_, _, _)
UseFnamesFrom(fnames, params, k) ==
    IF k > Len(params) THEN << >>
    ELSE FilesOfParam(fnames, params[k]) \o UseFnamesFrom(fnames, params, k + 1)

\* The mutant of UseFnames: one pass over the files, keeping those of any
\* listed parameter in file order.
UseFnamesFileOrder(fnames, params) ==
    SelectSeq(fnames, LAMBDA f : \E k \in DOMAIN params : DataId(f) = params[k])

\* use_fnames of lines 244-249: parameter by parameter, the matching files
\* in their order in all_fnames_magvec.
UseFnames(fnames, params) == UseFnamesFrom(fnames, params, 1)

-----------------------------------------------------------------------------
(* WCS headers                                                             *)

NoMap == [ file |-> << >>, rotated |-> FALSE ]

RECURSIVE Norm(_, _)
\* The decimal number m * 10^e, with the trailing zeros of m moved into e.
Norm(m, e) ==
    IF m = 0 THEN [ m |-> 0, e |-> 0 ]
    ELSE IF m % 10 = 0 THEN Norm(m \div 10, e + 1)
    ELSE [ m |-> m, e |-> e ]

\* Header values: a number m * 10^e, a string, or a value the decoder read
\* from a map's own header.
Num(m, e) ==
    [ kind |-> "number", text |-> "", m |-> Norm(m, e).m, e |-> Norm(m, e).e, of |-> NoMap ]
Text(t) == [ kind |-> "string", text |-> t, m |-> 0, e |-> 0, of |-> NoMap ]
FromMap(keyword, i, map) ==
    [ kind |-> "decoded", text |-> keyword, m |-> i, e |-> 0, of |-> map ]

Times(x, y) == Num(x.m * y.m, x.e + y.e)

\* l0 = 6173.345 * 1.e-10 and dl = 0.0688 * 1.e-10
l0 == Times(Num(6173345, -3), Num(1, -10))
dl == Times(Num(688, -4), Num(1, -10))

AxisFields == { "CRPIX", "CDELT", "CUNIT", "CTYPE", "CRVAL" }

\* tmp_map.wcs.to_header(): the two spatial axes of the map, whose values the
\* decoder supplies.
ToHeader(map) ==
    [ k \in { << "WCSAXES", 0 >> } \cup (AxisFields \X { 1, 2 }) |->
        IF k = << "WCSAXES", 0 >> THEN Num(2, 0) ELSE FromMap(k[1], k[2], map) ]

\* wcs_header[key] = value
Put(h, key, value) ==
    [ k \in DOMAIN h \cup { key } |-> IF k = key THEN value ELSE h[k] ]

\* The mutant of PutAxis: the keywords of axis n - 2 are written, so the
\* first appended axis lands on a spatial axis.
PutAxisShifted(h, n, crpix, cdelt, cunit, ctype, crval) ==
    Put(Put(Put(Put(Put(h, << "CRPIX", n - 2 >>, crpix), << "CDELT", n - 2 >>, cdelt),
                << "CUNIT", n - 2 >>, cunit), << "CTYPE", n - 2 >>, ctype),
        << "CRVAL", n - 2 >>, crval)

\* The five keyword assignments that describe axis n.
PutAxis(h, n, crpix, cdelt, cunit, ctype, crval) ==
    Put(Put(Put(Put(Put(h, << "CRPIX", n >>, crpix), << "CDELT", n >>, cdelt),
                << "CUNIT", n >>, cunit), << "CTYPE", n >>, ctype),
        << "CRVAL", n >>, crval)

\* The mutant of Level1Header: the Stokes axis written as axis 3 and the
\* wavelength axis as axis 4.
Level1HeaderSwapped(map) ==
    PutAxis(PutAxis(Put(ToHeader(map), << "WCSAXES", 0 >>, Num(4, 0)),
                    4, Num(35, -1), dl, Text("m"), Text("WAVE"), l0),
            3, Num(0, 0), Num(1, 0), Text(""), Text("STOKES"), Num(0, 0))

\* Lines 215-231.
Level1Header(map) ==
    PutAxis(PutAxis(Put(ToHeader(map), << "WCSAXES", 0 >>, Num(4, 0)),
                    3, Num(35, -1), dl, Text("m"), Text("WAVE"), l0),
            4, Num(0, 0), Num(1, 0), Text(""), Text("STOKES"), Num(0, 0))

\* Lines 268-277.
Level2Header(map) ==
    PutAxis(Put(ToHeader(map), << "WCSAXES", 0 >>, Num(3, 0)),
            3, Num(0, 0), Num(1, 0), Text(""), Text("Parameter"), Num(0, 0))

\* astropy.wcs.WCS(header): WCSAXES axes, each described by its keywords.
WCS(h) ==
    LET n == h[<< "WCSAXES", 0 >>].m
    IN  [ naxis |-> n,
          axis  |-> [ i \in 1 .. n |->
                        [ f \in AxisFields |->
                            IF << f, i >> \in DOMAIN h THEN h[<< f, i >>] ELSE Text("unset") ] ] ]

-----------------------------------------------------------------------------
(* Directories and the archive                                             *)

\* Number of further hmi.ME_720s_fd10 segments (other than field,
\* inclination, azimuth) a record may come with.
NFill == 22

\* Half-width of the range of target instants around 2014-09-11 00:00:00.
TargetSpan == 1

\* The two records of the model, one second either side of midnight.
Slots == << << "20140910", "235959" >>, << "20140911", "000001" >> >>

Letters == << "I", "Q", "U", "V" >>

\* The Stokes segments I0 .. V5 of a record in natural order, and a 25th.
StokesSeg(i) ==
    IF i <= NStokes * NWav
    THEN << Letters[((i - 1) \div NWav) + 1], Str((i - 1) % NWav) >>
    ELSE << "V", Str(NWav + i - NStokes * NWav - 1) >>

StokesFiles(slot, n) ==
    Tuple([ i \in 1 .. n |-> StokesName(slot[1], slot[2], StokesSeg(i)[1], StokesSeg(i)[2]) ])

\* Inversion files of a record: the listed parameters, then n other segments.
MagFiles(slot, params, n) ==
    [ i \in 1 .. Len(params) |-> MagName(slot[1], slot[2], params[i]) ]
    \o [ i \in 1 .. n |-> MagName(slot[1], slot[2], << "x", Str(i) >>) ]

Reverse(s) == Tuple([ i \in 1 .. Len(s) |-> s[Len(s) + 1 - i] ])

StokesCounts == { 0, 1, NStokes * NWav - 1, NStokes * NWav, NStokes * NWav + 1 }
ParamChoices == { << >>, mag_params, << << "field" >>, << "inclination" >> >> }
FillCounts == { 0, NFill }

\* What the first record contributes to a directory.
RecordChoices ==
    { c \in [ stokes : StokesCounts, params : ParamChoices, fill : FillCounts ] :
        c.params = << >> => c.fill = 0 }

\* What the second record contributes: nothing, a full Stokes set, a full
\* inversion set, or both.
SecondChoices ==
    [ stokes : { 0, NStokes * NWav }, params : { << >> }, fill : { 0 } ]
    \cup [ stokes : { 0, NStokes * NWav }, params : { mag_params }, fill : { NFill } ]

\* The names of a directory holding the chosen files of both records and one
\* unrelated file, in an order that is not the sorted one.
Contents(c) ==
    Reverse(StokesFiles(Slots[1], c[1].stokes)
            \o MagFiles(Slots[1], c[1].params, c[1].fill)
            \o << OtherName >>
            \o StokesFiles(Slots[2], c[2].stokes)
            \o MagFiles(Slots[2], c[2].params, c[2].fill))

Targets == (SecPerDay - TargetSpan) .. (SecPerDay + TargetSpan)

Init ==
    /\ pc = "start"
    /\ user_dir = << "/", "data", "/" >>
    /\ download \in BOOLEAN
    /\ derotate \in BOOLEAN
    /\ user_date \in Targets
    /\ \E c1 \in RecordChoices, c2 \in SecondChoices :
         /\ listing = IF download THEN << >> ELSE Contents(<< c1, c2 >>)
         /\ remote = IF download THEN Contents(<< c1, c2 >>) ELSE << >>
    /\ pf = NoPf
    /\ sp = NoSp
    /\ NoLocals

-----------------------------------------------------------------------------
(* get_HMI_data                                                            *)

\* The call ends in an exception.
Raised(e) ==
    /\ pc' = "raised"
    /\ outcome' = [ outcome EXCEPT !.kind = "raised", !.err = e, !.at = pc ]

SeriesStokes == << "S", "_", "720", "s" >>
SeriesMagvec == << "ME", "_", "720", "s", "_", "fd", "10" >>

\* Fido.fetch(Fido.search(a_time, a_series, a_notify), path=user_dir): the
\* archive's files of the series whose record time lies in
\* [user_date - 1, user_date + 1], as paths under user_dir.
Fetch(archive, series, T, dir_path) ==
    LET hit(f) ==
            LET tok == Split(f, ".")
            IN  /\ Len(tok) >= 3
                /\ tok[2] = series
                /\ ParseTime(tok[3]).ok
                /\ Abs(ParseTime(tok[3]).val - T) <= 1
        got == SelectSeq(archive, hit)
    IN  Tuple([ i \in DOMAIN got |-> dir_path \o got[i] ])

\* Line 135: the local files of hmi.S_720s.
LocalSearchStokes ==
    /\ pc = "start"
    /\ ~ download
    /\ LET r == parse_folder(user_dir, listing, << "hmi" >>, SeriesStokes, "JSOC")
       IN  IF r.ok
           THEN /\ all_fnames_stokes' = Bound(r.val)
                /\ pc' = "resolve_stokes"
                /\ UNCHANGED outcome
           ELSE /\ Raised(r.err)
                /\ UNCHANGED all_fnames_stokes
    /\ UNCHANGED << sp, user_dir, listing, remote, user_date, download, derotate, pf,
                    all_fnames_magvec, tstamps_diff, level1_data, level1_wcs,
                    level2_data, level2_wcs, tmp_map >>

\* The mutant of RemoteSearchStokes: the search and fetch run whatever the
\* download flag says.
RemoteSearchStokesUnguarded ==
    /\ pc = "start"
    /\ LET down_files == Fetch(remote, SeriesStokes, user_date, user_dir)
       IN  /\ all_fnames_stokes' = Bound(natsorted(down_files))
           /\ listing' = listing \o [ i \in DOMAIN down_files |->
                                        BaseOf(down_files[i], user_dir) ]
    /\ outcome' = [ outcome EXCEPT !.fetched = @ + 1 ]
    /\ pc' = "search_magvec"
    /\ UNCHANGED << sp, user_dir, remote, user_date, download, derotate, pf,
                    all_fnames_magvec, tstamps_diff, level1_data, level1_wcs,
                    level2_data, level2_wcs, tmp_map >>

\* Lines 130-133: search and fetch hmi.S_720s, then sort what was fetched.
RemoteSearchStokes ==
    /\ pc = "start"
    /\ download
    /\ LET down_files == Fetch(remote, SeriesStokes, user_date, user_dir)
       IN  /\ all_fnames_stokes' = Bound(natsorted(down_files))
           /\ listing' = listing \o [ i \in DOMAIN down_files |->
                                        BaseOf(down_files[i], user_dir) ]
    /\ outcome' = [ outcome EXCEPT !.fetched = @ + 1 ]
    /\ pc' = "search_magvec"
    /\ UNCHANGED << sp, user_dir, remote, user_date, download, derotate, pf,
                    all_fnames_magvec, tstamps_diff, level1_data, level1_wcs,
                    level2_data, level2_wcs, tmp_map >>

\* Lines 137-140 and 168-171: tstamps_diff after the `if len(...) > 1`.
\* With at most one file the name keeps whatever it was bound to before.
DiffsAfterIf(fnames, T, before) ==
    IF Len(fnames) > 1 THEN TimestampDiffs(fnames, T)
    ELSE IF before.bound THEN Ok(before.val)
    ELSE Raise("UnboundLocalError")

\* Lines 137-155: the closest Stokes files.
ResolveStokes ==
    /\ pc = "resolve_stokes"
    /\ LET d == DiffsAfterIf(all_fnames_stokes.val, user_date, tstamps_diff)
       IN  IF d.ok
           THEN /\ tstamps_diff' = Bound(d.val)
                /\ all_fnames_stokes' = Bound(ClosestFiles(all_fnames_stokes.val, d.val))
                /\ pc' = "search_magvec"
                /\ UNCHANGED outcome
           ELSE /\ Raised(d.err)
                /\ UNCHANGED << tstamps_diff, all_fnames_stokes >>
    /\ UNCHANGED << sp, user_dir, listing, remote, user_date, download, derotate, pf,
                    all_fnames_magvec, level1_data, level1_wcs, level2_data,
                    level2_wcs, tmp_map >>

\* Line 166: the local files of hmi.ME_720s_fd10.
LocalSearchMagvec ==
    /\ pc = "search_magvec"
    /\ ~ download
    /\ LET r == parse_folder(user_dir, listing, << "hmi" >>, SeriesMagvec, "JSOC")
       IN  IF r.ok
           THEN /\ all_fnames_magvec' = Bound(r.val)
                /\ pc' = "resolve_magvec"
                /\ UNCHANGED outcome
           ELSE /\ Raised(r.err)
                /\ UNCHANGED all_fnames_magvec
    /\ UNCHANGED << sp, user_dir, listing, remote, user_date, download, derotate, pf,
                    all_fnames_stokes, tstamps_diff, level1_data, level1_wcs,
                    level2_data, level2_wcs, tmp_map >>

\* Lines 161-164: search and fetch hmi.ME_720s_fd10.
RemoteSearchMagvec ==
    /\ pc = "search_magvec"
    /\ download
    /\ LET down_files == Fetch(remote, SeriesMagvec, user_date, user_dir)
       IN  /\ all_fnames_magvec' = Bound(natsorted(down_files))
           /\ listing' = listing \o [ i \in DOMAIN down_files |->
                                        BaseOf(down_files[i], user_dir) ]
    /\ outcome' = [ outcome EXCEPT !.fetched = @ + 1 ]
    /\ pc' = "assemble1"
    /\ UNCHANGED << sp, user_dir, remote, user_date, download, derotate, pf,
                    all_fnames_stokes, tstamps_diff, level1_data, level1_wcs,
                    level2_data, level2_wcs, tmp_map >>

\* Lines 183-185: `for i in range(len(all_fnames_stokes))` reads
\* all_fnames_magvec[i]; IndexError when the Stokes files are more.
ListingRaises(stokes, magvec) ==
    \E i \in 1 .. Len(stokes) : i > Len(magvec)

\* Lines 168-187: the closest inversion files, or the early return.
ResolveMagvec ==
    /\ pc = "resolve_magvec"
    /\ IF Len(all_fnames_magvec.val) > 1
       THEN LET d == TimestampDiffs(all_fnames_magvec.val, user_date)
                closest == ClosestFiles(all_fnames_magvec.val, d.val)
            IN  IF ~ d.ok
                THEN /\ Raised(d.err)
                     /\ UNCHANGED << tstamps_diff, all_fnames_magvec >>
                ELSE /\ tstamps_diff' = Bound(d.val)
                     /\ all_fnames_magvec' = Bound(closest)
                     /\ IF ListingRaises(all_fnames_stokes.val, closest)
                        THEN Raised("IndexError")
                        ELSE pc' = "assemble1" /\ UNCHANGED outcome
       ELSE /\ pc' = "done"
            /\ outcome' = [ outcome EXCEPT !.kind = "returned None", !.at = pc ]
            /\ UNCHANGED << tstamps_diff, all_fnames_magvec >>
    /\ UNCHANGED << sp, user_dir, listing, remote, user_date, download, derotate, pf,
                    all_fnames_stokes, level1_data, level1_wcs, level2_data,
                    level2_wcs, tmp_map >>

\* user_dir with the separator a path below it has after it.
DirPrefix ==
    IF user_dir # << >> /\ user_dir[Len(user_dir)] = "/" THEN user_dir
    ELSE user_dir \o << "/" >>

\* The path names a file of the directory: sunpy.map.Map raises ValueError
\* on a path that names none.
Exists(path) ==
    /\ Len(path) > Len(DirPrefix)
    /\ SubSeq(path, 1, Len(DirPrefix)) = DirPrefix
    /\ \E i \in DOMAIN listing : listing[i] = SubSeq(path, Len(DirPrefix) + 1, Len(path))

\* The files a decoding loop gets through: those before the first path that
\* names no file.
Readable(fnames) ==
    IF \A i \in DOMAIN fnames : Exists(fnames[i]) THEN fnames
    ELSE SubSeq(fnames, 1,
                (CHOOSE k \in DOMAIN fnames :
                    ~ Exists(fnames[k]) /\ \A j \in 1 .. k - 1 : Exists(fnames[j])) - 1)

\* Lines 195-203: decode every Stokes file, stack and reshape.
AssembleLevel1 ==
    /\ pc = "assemble1"
    /\ LET fnames == Readable(all_fnames_stokes.val)
           r == IF fnames # all_fnames_stokes.val THEN Raise("ValueError")
                ELSE Level1Cube(fnames, derotate)
       IN  /\ tmp_map' = IF Len(fnames) = 0 THEN tmp_map
                         ELSE Bound(MapOf(fnames[Len(fnames)], derotate))
           /\ IF r.ok
              THEN /\ level1_data' = Bound(r.val)
                   /\ pc' = "wcs1"
                   /\ outcome' = [ outcome EXCEPT !.decoded = @ \o fnames ]
              ELSE /\ UNCHANGED level1_data
                   /\ pc' = "raised"
                   /\ outcome' = [ outcome EXCEPT !.decoded = @ \o fnames,
                                                  !.kind = "raised", !.err = r.err,
                                                  !.at = pc ]
    /\ UNCHANGED << sp, user_dir, listing, remote, user_date, download, derotate, pf,
                    all_fnames_stokes, all_fnames_magvec, tstamps_diff,
                    level1_wcs, level2_data, level2_wcs >>

\* Lines 210-233: the Level-1 coordinate system from the last map.
BuildLevel1Wcs ==
    /\ pc = "wcs1"
    /\ level1_wcs' = Bound(WCS(Level1Header(tmp_map.val)))
    /\ pc' = "assemble2"
    /\ UNCHANGED << sp, user_dir, listing, remote, user_date, download, derotate, pf,
                    all_fnames_stokes, all_fnames_magvec, tstamps_diff,
                    level1_data, level2_data, level2_wcs, tmp_map, outcome >>

\* Lines 236-257: decode the inversion files parameter by parameter.
AssembleLevel2 ==
    /\ pc = "assemble2"
    /\ LET wanted == UseFnames(all_fnames_magvec.val, mag_params)
           use_fnames == Readable(wanted)
       IN  /\ tmp_map' = IF use_fnames = << >> THEN tmp_map
                         ELSE Bound(MapOf(use_fnames[Len(use_fnames)], derotate))
           /\ IF use_fnames = wanted
              THEN /\ level2_data' = Bound([ i \in DOMAIN use_fnames |->
                                               MapOf(use_fnames[i], derotate) ])
                   /\ outcome' = [ outcome EXCEPT !.decoded = @ \o use_fnames ]
                   /\ pc' = "wcs2"
              ELSE /\ UNCHANGED level2_data
                   /\ pc' = "raised"
                   /\ outcome' = [ outcome EXCEPT !.decoded = @ \o use_fnames,
                                                  !.kind = "raised", !.err = "ValueError",
                                                  !.at = pc ]
    /\ UNCHANGED << sp, user_dir, listing, remote, user_date, download, derotate, pf,
                    all_fnames_stokes, all_fnames_magvec, tstamps_diff,
                    level1_data, level1_wcs, level2_wcs >>

\* Lines 268-281: the Level-2 coordinate system, and the return.
BuildLevel2Wcs ==
    /\ pc = "wcs2"
    /\ level2_wcs' = Bound(WCS(Level2Header(tmp_map.val)))
    /\ pc' = "done"
    /\ outcome' = [ outcome EXCEPT !.kind = "returned" ]
    /\ UNCHANGED << sp, user_dir, listing, remote, user_date, download, derotate, pf,
                    all_fnames_stokes, all_fnames_magvec, tstamps_diff,
                    level1_data, level1_wcs, level2_data, tmp_map >>

Next ==
    \/ LocalSearchStokes
    \/ RemoteSearchStokes
    \/ ResolveStokes
    \/ LocalSearchMagvec
    \/ RemoteSearchMagvec
    \/ ResolveMagvec
    \/ AssembleLevel1
    \/ BuildLevel1Wcs
    \/ AssembleLevel2
    \/ BuildLevel2Wcs

Spec == Init /\ [][Next]_vars

-----------------------------------------------------------------------------
(* Properties of get_HMI_data                                              *)

Ended == pc \in { "done", "raised" }

\* What parse_folder hands to the resolver for a series of this directory.
LocalCandidates(series) ==
    parse_folder(user_dir, listing, << "hmi" >>, series, "JSOC").val

\* The instant a path's base name encodes in its third dot-delimited token.
EncodedInstant(path) == ParseTime(Split(BaseOf(path, user_dir), ".")[3]).val

\* The candidates at the least distance from the target, in their order.
Nearest(cand) ==
    SelectSeq(cand, LAMBDA f :
        \A i \in DOMAIN cand :
            Abs(EncodedInstant(f) - user_date) <= Abs(EncodedInstant(cand[i]) - user_date))

\* C1: with download=False, for each series with at least one candidate file
\* (a single one included), timestamp resolution completes and leaves exactly
\* the candidates at the least |encoded timestamp - T|, every tie kept, in
\* their order.
C1_ClosestExact ==
    ~ download =>
        /\ (pc = "search_magvec" \/ outcome.at = "resolve_stokes") =>
             LET cand == LocalCandidates(SeriesStokes)
             IN  cand # << >> =>
                    /\ outcome.at # "resolve_stokes"
                    /\ all_fnames_stokes.val = Nearest(cand)
        /\ (pc = "assemble1" \/ outcome.at = "resolve_magvec") =>
             LET cand == LocalCandidates(SeriesMagvec)
             IN  cand # << >> =>
                    /\ outcome.kind # "returned None"
                    /\ all_fnames_magvec.val = Nearest(cand)

\* No name of the directory belongs to the series.
NoFileOf(series) ==
    \A i \in DOMAIN listing :
        LET tok == Split(Lower(listing[i]), ".")
        IN  ~ (Len(tok) >= 2 /\ tok[1] = << "hmi" >> /\ tok[2] = Lower(series))

\* C2: with download=False and no local file of hmi.S_720s or of
\* hmi.ME_720s_fd10, the call ends in a raised error: it does not return
\* (a value or None), builds no cube and decodes no file.
C2_EmptyRaises ==
    (~ download /\ Ended /\ (NoFileOf(SeriesStokes) \/ NoFileOf(SeriesMagvec))) =>
        /\ outcome.kind = "raised"
        /\ outcome.decoded = << >>
        /\ ~ level1_data.bound
        /\ ~ level2_data.bound

\* The names of the directory that belong to a series.
NamesOf(series) ==
    SelectSeq(listing, LAMBDA f :
        LET tok == Split(Lower(f), ".")
        IN  Len(tok) >= 2 /\ tok[1] = << "hmi" >> /\ tok[2] = Lower(series))

\* The directory of the Level-2 scenario: the 24 Stokes files of one
\* timestamp, and one inversion file each for field, inclination and azimuth
\* of that timestamp.
Level2Scenario ==
    LET st == NamesOf(SeriesStokes)
        mv == NamesOf(SeriesMagvec)
    IN  /\ Len(st) = NStokes * NWav
        /\ Len(mv) = Len(mag_params)
        /\ \A k \in DOMAIN mag_params : \E i \in DOMAIN mv : DataId(mv[i]) = mag_params[k]
        /\ \A i \in DOMAIN st : Split(st[i], ".")[3] = Split(st[1], ".")[3]
        /\ \A i \in DOMAIN mv : Split(mv[i], ".")[3] = Split(st[1], ".")[3]

\* C3: with download=False on the directory of the Level-2 scenario the call
\* returns, and the parameter cube has the three slices field, inclination,
\* azimuth in that order.
C3_Level2Scenario ==
    (~ download /\ Ended /\ Level2Scenario) =>
        /\ outcome.kind = "returned"
        /\ Len(level2_data.val) = 3
        /\ \A k \in 1 .. 3 : DataId(level2_data.val[k].file) = mag_params[k]

\* The place of a file's parameter in mag_params.
ParamPlace(f) == CHOOSE k \in DOMAIN mag_params : DataId(f) = mag_params[k]

\* The place of a file among the resolved inversion files.
FilePlace(f) ==
    CHOOSE i \in DOMAIN all_fnames_magvec.val : all_fnames_magvec.val[i] = f

\* C4: when every listed parameter has a resolved inversion file, the slices
\* of the Level-2 cube are the files of the listed parameters, each once,
\* grouped by parameter in mag_params order whatever the order of the files,
\* and in file order within one parameter.
C4_ParameterOrder ==
    (level2_data.bound
     /\ \A k \in DOMAIN mag_params :
           \E i \in DOMAIN all_fnames_magvec.val :
               DataId(all_fnames_magvec.val[i]) = mag_params[k]) =>
        LET cube == level2_data.val
        IN  /\ \A i \in DOMAIN cube :
                 /\ cube[i].rotated = derotate
                 /\ cube[i].file \in Range(all_fnames_magvec.val)
                 /\ \E k \in DOMAIN mag_params : DataId(cube[i].file) = mag_params[k]
            /\ \A j \in DOMAIN all_fnames_magvec.val :
                 (\E k \in DOMAIN mag_params : DataId(all_fnames_magvec.val[j]) = mag_params[k])
                 => \E i \in DOMAIN cube : cube[i].file = all_fnames_magvec.val[j]
            /\ \A i, j \in DOMAIN cube :
                 i < j =>
                    \/ ParamPlace(cube[i].file) < ParamPlace(cube[j].file)
                    \/ /\ ParamPlace(cube[i].file) = ParamPlace(cube[j].file)
                       /\ FilePlace(cube[i].file) < FilePlace(cube[j].file)

\* C4 witness: a Level-2 cube with two slices of each parameter, built from
\* files that were not in parameter order.
C4_Witness ==
    /\ level2_data.bound
    /\ Len(level2_data.val) = 2 * Len(mag_params)
    /\ DataId(all_fnames_magvec.val[1]) = << "azimuth" >>
    /\ DataId(level2_data.val[1].file) = << "field" >>
    /\ DataId(level2_data.val[2].file) = << "field" >>

\* The cube's two leading axes flattened in C order.
Flatten(cube) ==
    [ k \in 1 .. Len(cube) * Len(cube[1]) |->
        cube[((k - 1) \div Len(cube[1])) + 1][((k - 1) % Len(cube[1])) + 1] ]

\* C5: a Level-1 cube is built from exactly 24 resolved files, has 4 x 6
\* leading axes, cube[s][w] is the (derotated, if asked) image of file
\* 6 * s + w, and flattening the leading axes gives the files' images in
\* their order.
C5_ReshapeRoundTrip ==
    level1_data.bound =>
        LET f == all_fnames_stokes.val
            cube == level1_data.val
        IN  /\ Len(f) = 24
            /\ Len(cube) = 4
            /\ \A s \in 0 .. 3 :
                 /\ Len(cube[s + 1]) = 6
                 /\ \A w \in 0 .. 5 :
                      cube[s + 1][w + 1] = [ file |-> f[6 * s + w + 1], rotated |-> derotate ]
            /\ \A k \in 1 .. 24 :
                 Flatten(cube)[k] = [ file |-> f[k], rotated |-> derotate ]

\* C5 witness: a Level-1 cube of derotated images has been built.
C5_Witness ==
    /\ level1_data.bound
    /\ derotate
    /\ level1_data.val[4][6].rotated
    /\ level1_data.val[2][1].file # level1_data.val[1][2].file

\* C6: when the resolved Stokes files are not 24, the call ends in an error
\* and no Level-1 cube exists.
C6_CountMismatchFatal ==
    (all_fnames_stokes.bound /\ Len(all_fnames_stokes.val) # 24) =>
        /\ ~ level1_data.bound
        /\ Ended => outcome.kind = "raised"

\* Level-1 assembly has run on a stack of other than 24 files.
C6_ReachedReshape ==
    /\ outcome.at = "assemble1"
    /\ Len(all_fnames_stokes.val) # 24

\* C7: a returned Level-2 cube has at least as many slices as there are
\* parameters in mag_params.
C7_MissingParameterFatal ==
    outcome.kind = "returned" => Len(level2_data.val) >= Len(mag_params)

\* The keywords of the two spatial axes in a coordinate system and in the
\* header of the map it was built from.
SpatialUnchanged(wcs, map) ==
    \A i \in 1 .. 2 : \A f \in AxisFields :
        wcs.axis[i][f] = ToHeader(map)[<< f, i >>]

\* The map the Level-1 header is read from: the last Stokes file's.
Level1Base ==
    MapOf(all_fnames_stokes.val[Len(all_fnames_stokes.val)], derotate)

\* The map the Level-2 header is read from: the last file decoded.
Level2Base == MapOf(outcome.decoded[Len(outcome.decoded)], derotate)

\* C9: the Level-1 coordinate system has 2 + 2 axes and the Level-2 one
\* 2 + 1; the appended axes come after the spatial ones in the order given
\* (wavelength, then Stokes; the parameter axis), and the keywords of the two
\* spatial axes are those of the base header.
C9_CoordinateExtension ==
    /\ level1_wcs.bound =>
         /\ level1_wcs.val.naxis = 2 + 2
         /\ DOMAIN level1_wcs.val.axis = 1 .. 4
         /\ SpatialUnchanged(level1_wcs.val, Level1Base)
         /\ level1_wcs.val.axis[3]["CTYPE"] = Text("WAVE")
         /\ level1_wcs.val.axis[4]["CTYPE"] = Text("STOKES")
    /\ level2_wcs.bound =>
         /\ level2_wcs.val.naxis = 2 + 1
         /\ DOMAIN level2_wcs.val.axis = 1 .. 3
         /\ SpatialUnchanged(level2_wcs.val, Level2Base)
         /\ level2_wcs.val.axis[3]["CTYPE"] = Text("Parameter")

\* C9 witness: both coordinate systems are built, the Level-2 one from an
\* inversion file's header and the Level-1 one from a Stokes file's.
C9_Witness ==
    /\ level1_wcs.bound
    /\ level2_wcs.bound
    /\ Level2Base.file # Level1Base.file
    /\ level2_wcs.val.axis[1]["CRPIX"].of = Level2Base

\* The Stokes segment a file name carries: the token before the extension.
SegmentOf(path) == DataId(path)

\* C10: the Level-1 data axes are (Stokes, wavelength, y, x) - slice [s][w]
\* is the file of Stokes parameter s at wavelength w - and the coordinate
\* system lists them in reverse: 4 axes, 0-based axis 2 the wavelength (WAVE,
\* m, reference pixel 3.5, reference value 6.173345e-7) and axis 3 Stokes
\* (STOKES, no unit, reference pixel 0, step 1).
C10_Level1AxisOrder ==
    level1_wcs.bound =>
        LET wave   == level1_wcs.val.axis[3]
            stokes == level1_wcs.val.axis[4]
            cube   == level1_data.val
        IN  /\ level1_wcs.val.naxis = 4
            /\ wave["CTYPE"] = Text("WAVE")
            /\ wave["CUNIT"] = Text("m")
            /\ wave["CRPIX"] = Num(35, -1)
            /\ wave["CRVAL"] = Num(6173345, -13)
            /\ stokes["CTYPE"] = Text("STOKES")
            /\ stokes["CUNIT"] = Text("")
            /\ stokes["CRPIX"] = Num(0, 0)
            /\ stokes["CDELT"] = Num(1, 0)
            /\ Len(cube) = 4
            /\ \A s \in 1 .. 4 :
                 /\ Len(cube[s]) = 6
                 /\ \A w \in 1 .. 6 :
                      SegmentOf(cube[s][w].file) = << Letters[s], Str(w - 1) >>

\* C10 witness: the Level-1 coordinate system is built over a cube whose
\* slice [3][5] (from 0) is segment V5.
C10_Witness ==
    /\ level1_wcs.bound
    /\ SegmentOf(level1_data.val[4][6].file) = << "V", "5" >>
    /\ level1_wcs.val.axis[4]["CRVAL"] = Num(0, 0)

-----------------------------------------------------------------------------
(* Dimensions of the returned arrays                                       *)

\* level1_data.reshape(4, 6, Y, X).ndim: the two leading axes given to the
\* reshape and the two axes of an image.
NdimReshaped(cube) == 2 + 2

\* np.asarray(list of n images).ndim: an empty list gives the 1-D array of
\* shape (0,), n images of shape (Y, X) give shape (n, Y, X).
NdimStacked(n) == IF n = 0 THEN 1 ELSE 1 + 2

\* C11: for the pairs a normally completing get_HMI_data call returns, the
\* axis count of the coordinate system equals the number of dimensions of
\* the data array: Level-1, and Level-2 whatever parameter files are there.
C11_AxisCountMatches ==
    outcome.kind = "returned" =>
        /\ level1_wcs.val.naxis = NdimReshaped(level1_data.val)
        /\ level2_wcs.val.naxis = NdimStacked(Len(level2_data.val))

\* A call has returned a Level-2 pair built from some, not all, parameters.
C11_PartialReturned ==
    /\ outcome.kind = "returned"
    /\ Len(level2_data.val) = 2
    /\ level2_wcs.val.naxis = NdimStacked(Len(level2_data.val))

-----------------------------------------------------------------------------
(* The two acquisition paths                                               *)

\* C12: with download=False no search or fetch is ever made, however the
\* call ends, and every file decoded is one the local filter of user_dir
\* returned for one of the two series.
C12_NoRemoteWhenLocal ==
    ~ download =>
        /\ outcome.fetched = 0
        /\ outcome.decoded # << >> =>
             LET found == Range(LocalCandidates(SeriesStokes))
                          \cup Range(LocalCandidates(SeriesMagvec))
             IN  \A i \in DOMAIN outcome.decoded : outcome.decoded[i] \in found

\* C12 witness: a local call has returned after decoding files of both
\* series.
C12_Witness ==
    /\ ~ download
    /\ outcome.kind = "returned"
    /\ outcome.fetched = 0
    /\ Len(outcome.decoded) > NStokes * NWav

\* What lines 135-146 of the download=False path leave in all_fnames_stokes
\* for the directory as it is now.
LocalResolvedStokes ==
    LET r == parse_folder(user_dir, listing, << "hmi" >>, SeriesStokes, "JSOC")
        d == DiffsAfterIf(r.val, user_date, Unbound)
    IN  IF ~ r.ok THEN r
        ELSE IF ~ d.ok THEN Raise(d.err)
        ELSE Ok(ClosestFiles(r.val, d.val))

\* What lines 166-185 of the download=False path leave in all_fnames_magvec
\* for the directory as it is now, after `stokes` was resolved.
LocalResolvedMagvec(stokes) ==
    LET r == parse_folder(user_dir, listing, << "hmi" >>, SeriesMagvec, "JSOC")
        d == TimestampDiffs(r.val, user_date)
    IN  IF ~ r.ok THEN r
        ELSE IF Len(r.val) <= 1 THEN Raise("returned None")
        ELSE IF ~ d.ok THEN Raise(d.err)
        ELSE IF ListingRaises(stokes, ClosestFiles(r.val, d.val)) THEN Raise("IndexError")
        ELSE Ok(ClosestFiles(r.val, d.val))

\* C13: with download=True, once the fetches have filled the directory, the
\* files handed to the assembler are those the download=False path hands
\* over for the same directory contents and target instant: the same two
\* lists in the same order.
C13_DownloadSameAsLocal ==
    (download /\ pc = "assemble1") =>
        LET s == LocalResolvedStokes
            m == LocalResolvedMagvec(s.val)
        IN  /\ s.ok
            /\ m.ok
            /\ all_fnames_stokes.val = s.val
            /\ all_fnames_magvec.val = m.val

\* The download path hands over the files of the Level-2 scenario.
C13_ScenarioFetched ==
    /\ download
    /\ pc = "assemble1"
    /\ Level2Scenario
    /\ Len(all_fnames_stokes.val) = NStokes * NWav
    /\ Len(all_fnames_magvec.val) = Len(mag_params)

-----------------------------------------------------------------------------
(* get_SP_data                                                             *)

\* The characters of the scan file names, in code point order.  A scan file
\* name is a sequence of characters, so that sorted() compares it as Python
\* compares strings.
Chars == << ".", "0", "1", "2", "9", "f", "i", "s", "t", "x" >>

CharRank == [ c \in Range(Chars) |-> CHOOSE i \in DOMAIN Chars : Chars[i] = c ]

RECURSIVE StrLessFrom(_, _, _)
StrLessFrom(a, b, i) ==
    IF i > Len(a) THEN i <= Len(b)
    ELSE IF i > Len(b) THEN FALSE
    ELSE IF a[i] = b[i] THEN StrLessFrom(a, b, i + 1)
    ELSE CharRank[a[i]] < CharRank[b[i]]

\* a < b for two strings.
StrLess(a, b) == StrLessFrom(a, b, 1)

\* x put at its place in the sorted list s.
Insert(x, s) ==
    SelectSeq(s, LAMBDA y : ~ StrLess(x, y)) \o << x >> \o SelectSeq(s, LAMBDA y : StrLess(x, y))

\* The mutant of sorted: the names are used in os.listdir order.
sortedOmitted(s) == s

RECURSIVE sorted(_)
\* sorted(s) of a list of strings.
sorted(s) == IF s = << >> THEN << >> ELSE Insert(s[1], sorted(Tail(s)))

\* file.endswith(suffix)
EndsWith(file, suffix) ==
    /\ Len(file) >= Len(suffix)
    /\ SubSeq(file, Len(file) - Len(suffix) + 1, Len(file)) = suffix

FitsExt == << ".", "f", "i", "t", "s" >>

\* The file tree: <root>/Level1/<date>/<scan files> and
\* <root>/Level2/<date>.fits.
SPRoot == << "/", "data" >>
SPDate == "20140910_120000"

RECURSIVE Normalize(_)
\* A path with its repeated separators collapsed, as the file system reads it.
Normalize(path) ==
    IF Len(path) < 2 THEN path
    ELSE IF path[1] = "/" /\ path[2] = "/" THEN Normalize(Tail(path))
    ELSE << path[1] >> \o Normalize(Tail(path))

\* os.listdir(path): the scan directory is the one directory there is.
ListDir(path) ==
    IF Normalize(path) = SPRoot \o << "/", "Level1", "/", SPDate >>
    THEN Ok(listing)
    ELSE Raise("FileNotFoundError")

\* os.path.join(dir, file) for a dir that does not end in a separator.
PathJoin(dir, file) == dir \o << "/" >> \o file

\* The base name of a scan path.
ScanOf(path) == LET tok == Split(path, "/") IN tok[Len(tok)]

\* The shape (Nstokes, Ny, Nwav) of the data a scan file holds.
ScanShape(name) ==
    IF name = << "2" >> \o FitsExt THEN << 2, 1, 3 >>
    ELSE IF name = << "9" >> \o FitsExt THEN << 2, 3, 2 >>
    ELSE << 2, 2, 3 >>

\* astropy.io.fits.open(path)[0].data: element [s][y][w] of a scan file,
\* named by where it comes from.
ScanData(path) ==
    LET sh == ScanShape(ScanOf(path))
    IN  Tuple([ s \in 1 .. sh[1] |->
          Tuple([ y \in 1 .. sh[2] |->
            Tuple([ w \in 1 .. sh[3] |->
              [ file |-> path, s |-> s, y |-> y, w |-> w ] ]) ]) ])

\* XCEN and YCEN of a scan file's primary header.
XCen(path) ==
    LET name == ScanOf(path)
    IN  IF name[2] = "0" THEN 10 ELSE NumVal[name[1]]
YCen(path) == 0 - XCen(path)

\* numpy assignment a[ix] = data: data of shape src fits an element of shape
\* dst when each of its axes has the same length or length 1.
Broadcastable(src, dst) == \A k \in DOMAIN dst : src[k] = dst[k] \/ src[k] = 1

\* data of shape src as the assignment stores it in an element of shape dst.
Broadcast(data, src, dst) ==
    Tuple([ s \in 1 .. dst[1] |->
      Tuple([ y \in 1 .. dst[2] |->
        Tuple([ w \in 1 .. dst[3] |->
          data[IF src[1] = 1 THEN 1 ELSE s][IF src[2] = 1 THEN 1 ELSE y][IF src[3] = 1 THEN 1 ELSE w]
        ]) ]) ])

\* The mutant of Transpose: transpose(1, 2, 3, 0), which leaves y before the
\* wavelength.
TransposeYFirst(a, Nx, shape) ==
    Tuple([ s \in 1 .. shape[1] |->
      Tuple([ y \in 1 .. shape[2] |->
        Tuple([ w \in 1 .. shape[3] |->
          Tuple([ x \in 1 .. Nx |-> a[x][s][y][w] ]) ]) ]) ])

\* a.transpose(1, 3, 2, 0) of an array of shape (Nx,) + shape: axis k of the
\* result is the named axis of a, so out[s][w][y][x] = a[x][s][y][w].
Transpose(a, Nx, shape) ==
    Tuple([ s \in 1 .. shape[1] |->
      Tuple([ w \in 1 .. shape[3] |->
        Tuple([ y \in 1 .. shape[2] |->
          Tuple([ x \in 1 .. Nx |-> a[x][s][y][w] ]) ]) ]) ])

\* The extensions of the Level-2 file, each an image of shape L2Shape.
L2Hdus == { "Field_Strength", "Field_Inclination", "Field_Azimuth" }
L2Shape == << 2, 2 >>

RECURSIVE SortInts(_)
SortInts(xs) ==
    IF xs = << >> THEN << >>
    ELSE SelectSeq(SortInts(Tail(xs)), LAMBDA y : y <= xs[1]) \o << xs[1] >>
         \o SelectSeq(SortInts(Tail(xs)), LAMBDA y : y > xs[1])

\* np.median(xs) of a non-empty list of integers.
Median(xs) ==
    LET s == SortInts(xs)
        n == Len(s)
    IN  IF n % 2 = 1 THEN Num(s[(n + 1) \div 2], 0)
        ELSE Num((s[n \div 2] + s[n \div 2 + 1]) * 5, -1)

\* (head2[keyword] + 1) / 2 for the NAXISk keyword of the Level-2 header.
HalfPlus(k) == Num((L2Shape[Len(L2Shape) + 1 - k] + 1) * 5, -1)

\* An astropy.wcs.WCS(naxis=n) with its ctype, cunit, crpix, crval and
\* cdelt lists assigned.
WcsOf(n, ctype, cunit, crpix, crval, cdelt) ==
    [ naxis |-> n,
      axis  |-> [ i \in 1 .. n |->
                    [ f \in AxisFields |->
                        CASE f = "CTYPE" -> ctype[i] [] f = "CUNIT" -> cunit[i]
                          [] f = "CRPIX" -> crpix[i] [] f = "CRVAL" -> crval[i]
                          [] OTHER -> cdelt[i] ] ] ]

\* Lines 733-740.
SPLevel1Wcs(head1, head2, xcen_a, ycen_a) ==
    WcsOf(4,
          << Text("HPLN-TAN"), Text("HPLT-TAN"), Text("WAVE"), Text("STOKES") >>,
          << Text("arcsec"), Text("arcsec"), FromMap("CUNIT", 1, head1), Text("") >>,
          << HalfPlus(1), HalfPlus(2), FromMap("CRPIX", 1, head1), Num(0, 0) >>,
          << Median(xcen_a), Median(ycen_a), FromMap("CRVAL", 1, head1), Num(0, 0) >>,
          << FromMap("XSCALE", 0, head2), FromMap("YSCALE", 0, head2),
             FromMap("CDELT", 1, head1), Num(1, 0) >>)

\* Lines 746-753.
SPLevel2Wcs(head2, xcen_a, ycen_a) ==
    WcsOf(3,
          << Text("HPLN-TAN"), Text("HPLT-TAN"), Text("Parameter") >>,
          << Text("arcsec"), Text("arcsec"), Text("") >>,
          << HalfPlus(1), HalfPlus(2), Num(0, 0) >>,
          << Median(xcen_a), Median(ycen_a), Num(0, 0) >>,
          << FromMap("XSCALE", 0, head2), FromMap("YSCALE", 0, head2), Num(1, 0) >>)

\* Largest number of entries of the scan directory.
MaxScans == 3

ScanPool ==
    { << "1" >> \o FitsExt, << "1", "0" >> \o FitsExt, << "2" >> \o FitsExt,
      << "9" >> \o FitsExt, << "9", ".", "t", "x", "t" >> }

ScanListings == UNION { Arrangements(ScanPool, n) : n \in 0 .. MaxScans }

ParamLists ==
    { << "Field_Strength", "Field_Inclination", "Field_Azimuth" >>,
      << "Field_Azimuth" >>,
      << "Field_Strength", "Doppler" >> }

InitSP ==
    /\ pc = "sp_start"
    /\ user_dir \in { SPRoot \o << "/" >>, SPRoot }
    /\ listing \in ScanListings
    /\ remote = << >>
    /\ user_date = 0
    /\ download = FALSE
    /\ derotate = FALSE
    /\ pf = NoPf
    /\ \E params \in ParamLists :
         sp = [ NoSp EXCEPT !.user_date = SPDate, !.magnetic_params = params ]
    /\ NoLocals

\* Lines 679-692: the scan file list, the first scan opened, the array
\* allocated.
SPListScans ==
    /\ pc = "sp_start"
    /\ LET level1_dir == user_dir \o << "Level1", "/", sp.user_date >>
           listed == ListDir(level1_dir)
           fits == SelectSeq(sorted(listed.val), LAMBDA file : EndsWith(file, FitsExt))
           level1_files == Tuple([ i \in DOMAIN fits |-> PathJoin(level1_dir, fits[i]) ])
       IN  IF ~ listed.ok
           THEN Raised(listed.err) /\ UNCHANGED sp
           ELSE IF level1_files = << >>
           THEN /\ Raised("IndexError")
                /\ sp' = [ sp EXCEPT !.level1_files = level1_files ]
           ELSE /\ sp' = [ sp EXCEPT !.level1_files = level1_files,
                                     !.shape = ScanShape(ScanOf(level1_files[1])) ]
                /\ pc' = "sp_scans"
                /\ outcome' = [ outcome EXCEPT !.decoded = << level1_files[1] >> ]
    /\ UNCHANGED << user_dir, listing, remote, user_date, download, derotate, pf,
                    all_fnames_stokes, all_fnames_magvec, tstamps_diff,
                    level1_data, level1_wcs, level2_data, level2_wcs, tmp_map >>

\* Lines 698-708: every scan read into its place, then the transpose.
SPReadScans ==
    /\ pc = "sp_scans"
    /\ LET files == sp.level1_files
           Nx == Len(files)
           fit(file) == Broadcastable(ScanShape(ScanOf(file)), sp.shape)
           raw == Tuple([ ix \in 1 .. Nx |->
                    Broadcast(ScanData(files[ix]), ScanShape(ScanOf(files[ix])), sp.shape) ])
       IN  IF \E ix \in 1 .. Nx : ~ fit(files[ix])
           THEN /\ Raised("ValueError")
                /\ UNCHANGED << sp, level1_data >>
           ELSE /\ sp' = [ sp EXCEPT !.raw = raw,
                                     !.head_all = files,
                                     !.xcen_a = Tuple([ ix \in 1 .. Nx |-> XCen(files[ix]) ]),
                                     !.ycen_a = Tuple([ ix \in 1 .. Nx |-> YCen(files[ix]) ]) ]
                /\ level1_data' = Bound(Transpose(raw, Nx, sp.shape))
                /\ outcome' = [ outcome EXCEPT !.decoded = @ \o files ]
                /\ pc' = "sp_level2"
    /\ UNCHANGED << user_dir, listing, remote, user_date, download, derotate, pf,
                    all_fnames_stokes, all_fnames_magvec, tstamps_diff,
                    level1_wcs, level2_data, level2_wcs, tmp_map >>

\* Lines 711-718: the Level-2 file and the wanted parameters.
SPReadLevel2 ==
    /\ pc = "sp_level2"
    /\ LET level2_fname == user_dir \o << "/", "Level2", "/", sp.user_date >> \o FitsExt
           there == Normalize(level2_fname)
                      = SPRoot \o << "/", "Level2", "/", SPDate >> \o FitsExt
           params == sp.magnetic_params
       IN  /\ sp' = [ sp EXCEPT !.level2_fname = level2_fname ]
           /\ IF ~ there THEN Raised("FileNotFoundError") /\ UNCHANGED level2_data
              ELSE IF \E i \in DOMAIN params : params[i] \notin L2Hdus
              THEN Raised("KeyError") /\ UNCHANGED level2_data
              ELSE /\ level2_data' = Bound([ i \in DOMAIN params |->
                                               [ file |-> level2_fname, hdu |-> params[i] ] ])
                   /\ outcome' = [ outcome EXCEPT !.decoded = Append(@, level2_fname) ]
                   /\ pc' = "sp_wcs"
    /\ UNCHANGED << user_dir, listing, remote, user_date, download, derotate, pf,
                    all_fnames_stokes, all_fnames_magvec, tstamps_diff,
                    level1_data, level1_wcs, level2_wcs, tmp_map >>

\* Lines 726-755: the two coordinate systems, and the return.
SPBuildWcs ==
    /\ pc = "sp_wcs"
    /\ LET head1 == MapOf(sp.level1_files[1], FALSE)
           head2 == MapOf(sp.level2_fname, FALSE)
       IN  /\ level1_wcs' = Bound(SPLevel1Wcs(head1, head2, sp.xcen_a, sp.ycen_a))
           /\ level2_wcs' = Bound(SPLevel2Wcs(head2, sp.xcen_a, sp.ycen_a))
    /\ pc' = "done"
    /\ outcome' = [ outcome EXCEPT !.kind = "returned" ]
    /\ UNCHANGED << sp, user_dir, listing, remote, user_date, download, derotate, pf,
                    all_fnames_stokes, all_fnames_magvec, tstamps_diff,
                    level1_data, level2_data, tmp_map >>

NextSP ==
    \/ SPListScans
    \/ SPReadScans
    \/ SPReadLevel2
    \/ SPBuildWcs

SpecSP == InitSP /\ [][NextSP]_vars

\* The scans all have the shape of the first.
SameShape == \A x \in DOMAIN sp.level1_files : ScanShape(ScanOf(sp.level1_files[x])) = sp.shape

\* C14: the Hinode Level-1 cube is built over the .fits files of the scan
\* directory in sorted file name order; for N scans it has shape
\* (Nstokes, Nwav, Ny, N), and cube[s][w][y][x] is element [s][y][w] of the
\* x-th scan, for scans of shape (Nstokes, Ny, Nwav).
C14_CanonicalAxes ==
    (level1_data.bound /\ sp.level1_files # << >>) =>
        LET files == sp.level1_files
            N     == Len(files)
            cube  == level1_data.val
        IN  /\ { ScanOf(files[x]) : x \in 1 .. N }
                 = { f \in Range(listing) : EndsWith(f, FitsExt) }
            /\ \A x1, x2 \in 1 .. N :
                 x1 < x2 => StrLess(ScanOf(files[x1]), ScanOf(files[x2]))
            /\ Len(cube) = sp.shape[1]
            /\ \A s \in DOMAIN cube :
                 /\ Len(cube[s]) = sp.shape[3]
                 /\ \A w \in DOMAIN cube[s] :
                      /\ Len(cube[s][w]) = sp.shape[2]
                      /\ \A y \in DOMAIN cube[s][w] :
                           /\ Len(cube[s][w][y]) = N
                           /\ SameShape =>
                                \A x \in 1 .. N :
                                    cube[s][w][y][x] = ScanData(files[x])[s][y][w]

\* C14 witness: a cube of two scans of one shape, listed in the opposite of
\* their sorted order, with wavelength and y axes of different lengths.
C14_Witness ==
    /\ level1_data.bound
    /\ Len(sp.level1_files) = 2
    /\ SameShape
    /\ sp.shape[2] # sp.shape[3]
    /\ \E i, j \in DOMAIN listing :
         /\ i < j
         /\ listing[i] = ScanOf(sp.level1_files[2])
         /\ listing[j] = ScanOf(sp.level1_files[1])
    /\ level1_data.val[2][3][1][2] = [ file |-> sp.level1_files[2], s |-> 2, y |-> 1, w |-> 3 ]

\* The pairs get_SP_data returns: a 4-axis coordinate system with the 4-D
\* Level-1 array, a 3-axis one with the 3-D Level-2 array.
SP_AxisCountMatches ==
    (outcome.kind = "returned" /\ sp.level1_files # << >>) =>
        /\ level1_wcs.val.naxis = 1 + Len(sp.shape)
        /\ level2_wcs.val.naxis = 1 + Len(L2Shape)

-----------------------------------------------------------------------------
(* Order of the steps of get_HMI_data                                      *)

\* The steps before any file is handed to the assembler.
SearchAndResolve == { "start", "resolve_stokes", "search_magvec", "resolve_magvec" }

\* The position of a call that has not ended in an error.
HmiRunning == pc \in SearchAndResolve \cup { "assemble1", "wcs1", "assemble2", "wcs2", "done" }

\* C15: every get_HMI_data acquisition goes START, search, timestamp-resolve,
\* Level-1 assembly, Level-2 assembly, coordinate build, DONE: a file is
\* decoded only after the timestamp resolution of both series has finished,
\* Level-2 assembly starts only after Level-1 assembly, no coordinate system
\* is built before Level-2 assembly has completed, and a call that ends
\* without the products and without an error left from timestamp-resolve.
C15_StateOrder ==
    HmiRunning =>
        /\ (outcome.decoded # << >> \/ pc = "assemble1") =>
             /\ pc \notin SearchAndResolve
             /\ all_fnames_stokes.bound
             /\ all_fnames_magvec.bound
             /\ tstamps_diff.bound
        /\ (level2_data.bound \/ pc = "assemble2") => level1_data.bound
        /\ (level1_wcs.bound \/ level2_wcs.bound) => level2_data.bound
        /\ pc = "done" =>
             \/ outcome.kind = "returned" /\ level2_wcs.bound
             \/ outcome.kind = "returned None" /\ outcome.at \in SearchAndResolve

\* A local call stands before Level-2 assembly with the Level-1 coordinate
\* system already built.
C15_CoordinateBuiltEarly ==
    /\ ~ download
    /\ pc = "assemble2"
    /\ level1_wcs.bound
    /\ ~ level2_data.bound

-----------------------------------------------------------------------------
(* One observation                                                         *)

\* The timestamp a file name carries: the third dot-delimited token of the
\* base name.
StampOf(path) == Split(BaseOf(path, user_dir), ".")[3]

\* C16: the products a download=False call returns belong to one
\* observation: every Stokes file of the Level-1 cube and every inversion
\* file of the Level-2 cube carries the same timestamp.
C16_SameObservation ==
    (~ download /\ outcome.kind = "returned") =>
        \A i \in DOMAIN all_fnames_stokes.val :
            /\ StampOf(all_fnames_stokes.val[i]) = StampOf(all_fnames_stokes.val[1])
            /\ \A k \in DOMAIN level2_data.val :
                 StampOf(level2_data.val[k].file) = StampOf(all_fnames_stokes.val[1])

\* A download=False call has returned both products from a directory that
\* holds files of two timestamps.
C16_TwoStampsReturned ==
    /\ ~ download
    /\ outcome.kind = "returned"
    /\ level2_data.val # << >>
    /\ \E i, j \in DOMAIN listing :
         /\ listing[i] # OtherName
         /\ listing[j] # OtherName
         /\ Split(listing[i], ".")[3] # Split(listing[j], ".")[3]

-----------------------------------------------------------------------------
(* Spelling of the directory path                                          *)

\* Three spellings of dir_path: with the trailing separator, without it, and
\* with a '.' in a directory name.
DirSpellings ==
    { << "/", "data", "/" >>, << "/", "data" >>, << "/", "data", ".", "v", "/" >> }

\* What the first record contributes to the directories of SpecPath.
PathChoices ==
    { [ stokes |-> NStokes * NWav, params |-> mag_params, fill |-> NFill ],
      [ stokes |-> NStokes * NWav, params |-> << >>, fill |-> 0 ],
      [ stokes |-> 1, params |-> mag_params, fill |-> 0 ] }

\* download=False calls on the same listings under each spelling of user_dir.
InitPath ==
    /\ pc = "start"
    /\ user_dir \in DirSpellings
    /\ download = FALSE
    /\ derotate \in BOOLEAN
    /\ user_date \in Targets
    /\ \E c1 \in PathChoices, c2 \in SecondChoices : listing = Contents(<< c1, c2 >>)
    /\ remote = << >>
    /\ pf = NoPf
    /\ sp = NoSp
    /\ NoLocals

NextPath ==
    \/ LocalSearchStokes
    \/ ResolveStokes
    \/ LocalSearchMagvec
    \/ ResolveMagvec
    \/ AssembleLevel1
    \/ BuildLevel1Wcs
    \/ AssembleLevel2
    \/ BuildLevel2Wcs

SpecPath == InitPath /\ [][NextPath]_vars

\* The candidates of a series by base name, and those of them nearest to
\* the target by the third dot-delimited token of the base name.
NearestNames(series) ==
    LET names == natsorted(NamesOf(series))
        at(f) == ParseTime(Split(f, ".")[3]).val
    IN  SelectSeq(names, LAMBDA f :
            \A i \in DOMAIN names : Abs(at(f) - user_date) <= Abs(at(names[i]) - user_date))

\* C17: local selection depends on the base names only, however dir_path is
\* spelled: every path parse_folder returns names an entry of the directory,
\* and for two or more candidates of hmi.S_720s the resolution reads the
\* third dot-delimited token of the base name and so keeps the files nearest
\* to the target by that token.
C17_SpellingIndependent ==
    /\ all_fnames_stokes.bound =>
         \A i \in DOMAIN all_fnames_stokes.val : Exists(all_fnames_stokes.val[i])
    /\ ((pc = "search_magvec" \/ outcome.at = "resolve_stokes")
        /\ Len(NamesOf(SeriesStokes)) > 1) =>
         /\ outcome.at # "resolve_stokes"
         /\ all_fnames_stokes.val
              = [ i \in DOMAIN NearestNames(SeriesStokes) |->
                    DirPrefix \o NearestNames(SeriesStokes)[i] ]

\* A call on a directory spelled with its trailing separator and no '.' has
\* resolved the Stokes files of one of two records.
C17_PlainSpellingResolved ==
    /\ user_dir = << "/", "data", "/" >>
    /\ pc = "search_magvec"
    /\ Len(all_fnames_stokes.val) = NStokes * NWav
    /\ Len(NamesOf(SeriesStokes)) = 2 * NStokes * NWav

====
